---- MODULE Spec2Model ----
(***************************************************************************)
(* The PC algorithm of src/src/algorithms/pc_algorithm.py and of the page  *)
(* pages/6_PC_Algorithm.py as a state machine: the skeleton search         *)
(* (pc_step_1_skeleton and the page's pc_step_1_skeleton_with_logging),    *)
(* the collider orientation (pc_step_2_orient_colliders) and Meek's rules  *)
(* (pc_step_3_orient_remaining).                                           *)
(*                                                                         *)
(* A graph is a set of pairs of column names.  The undirected skeleton     *)
(* holds one pair <<i, j>> per edge, i before j in the column order (the   *)
(* order in which networkx lists the edges of complete_graph(nodes)); the  *)
(* PDAG holds one pair per arc, so an undirected edge is two arcs.         *)
(***************************************************************************)
EXTENDS Integers, Sequences, FiniteSets, TLC

VARIABLES
    data,             \* the dataset: its columns, its number of rows, its kind
    builder,          \* which skeleton search runs: "lib" or "page"
    pc,               \* where the run is
    skeleton,         \* nx.Graph skeleton: its edges
    sepset,           \* dict (i, j) -> set
    k,                \* size of the conditioning sets of the current pass
    k_changed,        \* the flag k_changed of the current pass
    edges_to_remove,  \* the list edges_to_remove of the current pass
    todo,             \* edges of the current pass not yet examined
    calls,            \* the independence tests of the last examined edge
    independent,      \* the tests (i, j, S) that returned True so far
    pdag,             \* nx.DiGraph pdag: its arcs
    centre,           \* position of the node k of pc_step_2's outer loop
    pairs,            \* unshielded pairs of that node not yet examined
    pdag1,            \* the graph pc_step_2 returned (the caller keeps it)
    made_change,      \* the flag made_change of pc_step_3's loop
    rule,             \* the rule the last iteration of pc_step_3 applied, 0: none
    runs,             \* how many times pc_step_3 was called on this graph
    out1,             \* what the first call of pc_step_3 returned
    test              \* a direct call of partial_correlation_test and its result

vars == <<data, builder, pc, skeleton, sepset, k, k_changed, edges_to_remove,
          todo, calls, independent, pdag, centre, pairs, pdag1, made_change, rule, runs, out1,
          test>>

builderVars == <<skeleton, sepset, k, k_changed, edges_to_remove, todo, calls,
                 independent>>
orientVars == <<pdag, centre, pairs, pdag1>>
meekVars == <<made_change, rule, runs, out1>>

----------------------------------------------------------------------------
(* Datasets *)

\* generate_diamond_data: columns A, B, C, D
DiamondColumns == <<"A", "B", "C", "D">>

\* generate_m_graph_data: the observed columns A, B, C, D, E
MGraphColumns == <<"A", "B", "C", "D", "E">>

\* n_samples of the page
PageSamples == 2000

\* how many times pc_step_3_orient_remaining is called on one graph
MaxCalls == 2

\* a dataset too short for a conditioning set of two columns (4 < 2 + 3)
FewSamples == 4

\* Pairs of the five-column dataset that are so strongly correlated that the
\* p-value of every test on them is below alpha; every other p-value of that
\* dataset, and every p-value of a "noisy" dataset, may fall on either side.
StrongPairs == {{"A", "B"}, {"A", "C"}, {"A", "D"}, {"B", "C"}, {"B", "E"}}

Datasets ==
    { [columns |-> DiamondColumns, rows |-> n, kind |-> "noisy"] : n \in {FewSamples, PageSamples} }
    \cup { [columns |-> MGraphColumns, rows |-> FewSamples, kind |-> "strong"] }

\* generate_data: columns X, Y, Z
TripleColumns == <<"X", "Y", "Z">>

\* the graphs the generators draw their data from, as sets of arcs
DiamondDag == {<<"A", "B">>, <<"A", "C">>, <<"B", "D">>, <<"C", "D">>}
ChainDag == {<<"X", "Z">>, <<"Z", "Y">>}
ForkDag == {<<"Z", "X">>, <<"Z", "Y">>}
ColliderDag == {<<"X", "Z">>, <<"Y", "Z">>}

\* a dataset of n rows over the columns cols on which no computation fails
\* and the p-value of a test is above alpha exactly for the tests in F
Fixed(cols, F, n) == [columns |-> cols, rows |-> n, kind |-> "fixed", facts |-> F]

\* tests of the four columns that may be independent or not
SomeFacts ==
    {<<{"A", "D"}, {}>>, <<{"C", "D"}, {}>>,
     <<{"A", "B"}, {"C"}>>, <<{"A", "C"}, {"B"}>>, <<{"B", "C"}, {"A"}>>,
     <<{"B", "D"}, {"C"}>>,
     <<{"A", "D"}, {"B", "C"}>>, <<{"B", "C"}, {"A", "D"}>>}

\* the four columns with every choice of independent tests among SomeFacts
FixedDatasets == {Fixed(DiamondColumns, F, PageSamples) : F \in SUBSET SomeFacts}

\* independent tests of the five columns that leave the skeleton A-B, A-C,
\* A-D, B-C, B-E with colliders at A and at B
ConflictFacts ==
    {<<{"C", "D"}, {}>>, <<{"C", "E"}, {}>>, <<{"D", "E"}, {}>>,
     <<{"A", "E"}, {"B"}>>, <<{"B", "D"}, {"A"}>>}

\* the same five columns in two orders
PermutedDatasets ==
    {Fixed(c, ConflictFacts, PageSamples) :
        c \in {MGraphColumns, <<"B", "A", "C", "D", "E">>}}

\* a DataFrame without columns
EmptyData == [columns |-> <<>>, rows |-> PageSamples, kind |-> "noisy"]

Nodes(d) == {d.columns[p] : p \in 1..Len(d.columns)}

\* W and the parents of its nodes in the graph D
WithParents(D, W) == W \cup {a[1] : a \in {b \in D : b[2] \in W}}

\* the ancestors of W in D, W included (graphs of up to five nodes)
Ancestors(D, W) == WithParents(D, WithParents(D, WithParents(D, WithParents(D, W))))

\* the moral graph of D on the nodes An: arcs as edges, and parents of a
\* common child joined
Moral(D, An) ==
    {e \in An \X An :
        /\ e[1] # e[2]
        /\ \/ e \in D \/ <<e[2], e[1]>> \in D
           \/ \E c \in An : <<e[1], c>> \in D /\ <<e[2], c>> \in D}

\* W and the nodes one edge of M away from it
WithNeighbors(M, W) == W \cup {e[2] : e \in {f \in M : f[1] \in W}}

\* x and y are d-separated by S in D: not connected in the moral graph of
\* the ancestors of x, y and S once S is taken out
DSeparated(D, x, y, S) ==
    LET An == Ancestors(D, {x, y} \cup S)
        M == {e \in Moral(D, An) : e[1] \notin S /\ e[2] \notin S}
    IN  y \notin WithNeighbors(M, WithNeighbors(M, WithNeighbors(M, WithNeighbors(M, {x}))))

\* the independence facts <<{x, y}, S>> of the graph D over the nodes N
DSepFacts(D, N) ==
    {f \in (SUBSET N) \X (SUBSET N) :
        /\ Cardinality(f[1]) = 2
        /\ f[1] \cap f[2] = {}
        /\ \A x \in f[1], y \in f[1] : x # y => DSeparated(D, x, y, f[2])}

\* a dataset of n rows drawn from the graph D over the columns cols on which
\* no computation fails and the p-value of a test is above alpha exactly
\* when D d-separates the two columns given the conditioning set
Faithful(cols, D, n) ==
    [columns |-> cols, rows |-> n, kind |-> "faithful", dag |-> D,
     facts |-> DSepFacts(D, {cols[p] : p \in 1..Len(cols)})]

ScenarioDatasets ==
    {Faithful(DiamondColumns, DiamondDag, PageSamples)}
    \cup {Faithful(TripleColumns, g, PageSamples) : g \in {ChainDag, ForkDag, ColliderDag}}

Pos(d, n) == CHOOSE p \in 1..Len(d.columns) : d.columns[p] = n

\* the sides of alpha the p-value of the test of i and j given S can fall on
\* (TRUE: p_value > alpha)
PValueAbove(d, i, j, S) ==
    IF d.kind \in {"faithful", "fixed"} THEN {(<<{i, j}, S>> \in d.facts)}
    ELSE IF d.kind = "strong" /\ {i, j} \in StrongPairs THEN {FALSE} ELSE BOOLEAN

\* whether pg.partial_corr can raise on dataset d (TRUE: it raises)
CanFail(d) == IF d.kind \in {"faithful", "fixed"} THEN {FALSE} ELSE BOOLEAN

----------------------------------------------------------------------------
(* Graph helpers *)

get_neighbors(G, n) == {m \in {e[1] : e \in G} \cup {e[2] : e \in G} :
                            <<n, m>> \in G \/ <<m, n>> \in G} \ {n}

has_edge(G, u, v) == <<u, v>> \in G \/ <<v, u>> \in G

complete_graph(d) ==
    {<<d.columns[p], d.columns[q]>> : p \in 1..Len(d.columns), q \in 1..Len(d.columns)}
    \cap {e \in Nodes(d) \X Nodes(d) : Pos(d, e[1]) < Pos(d, e[2])}

\* as if the subsets had one element more than asked
LargerCombinations(pool, r) == {S \in SUBSET pool : Cardinality(S) = r + 1}

combinations(pool, r) == {S \in SUBSET pool : Cardinality(S) = r}

EmptyDict == [x \in {} |-> {}]

DictSet(dict, key, val) ==
    [x \in DOMAIN dict \cup {key} |-> IF x = key THEN val ELSE dict[x]]

\* the first edge of a list of edges in networkx's order: by first endpoint,
\* then by second endpoint, in the order of the columns
FirstEdge(d, E) ==
    CHOOSE e \in E : \A f \in E :
        \/ Pos(d, e[1]) < Pos(d, f[1])
        \/ Pos(d, e[1]) = Pos(d, f[1]) /\ Pos(d, e[2]) <= Pos(d, f[2])

----------------------------------------------------------------------------
(* The independence test *)

\* as if the number of rows were not looked at
TestIgnoringRows(rows, S, failed, pAbove) ==
    IF failed THEN FALSE ELSE pAbove

\* partial_correlation_test: too few rows, or a failed computation, is
\* "dependent"; otherwise independent exactly when p_value > alpha
partial_correlation_test(rows, S, failed, pAbove) ==
    IF rows < Cardinality(S) + 3 THEN FALSE
    ELSE IF failed THEN FALSE
    ELSE pAbove

\* what the test can return for i, j given S on dataset d
TestResults(d, i, j, S) ==
    {partial_correlation_test(d.rows, S, failed, pAbove) :
        failed \in CanFail(d), pAbove \in PValueAbove(d, i, j, S)}

\* The loop "for S in combinations(pool, r): if test(...): ...; break".  The
\* pool is a Python set, so the subsets come in any order: the loop either
\* finds every subset dependent, or stops at a subset S found independent
\* after any of the other subsets were found dependent.  known are subsets
\* already tested (dependent) for this edge in this pass: the test is a
\* function of its arguments, so they are dependent again.
SubsetSearch(d, i, j, pool, r, known) ==
    LET C == combinations(pool, r)
        canF == {S \in C : S \in known \/ FALSE \in TestResults(d, i, j, S)}
        canT == {S \in C : S \notin known /\ TRUE \in TestResults(d, i, j, S)}
    IN  {[found |-> FALSE, S |-> {}, asked |-> C] : x \in IF canF = C THEN {0} ELSE {}}
        \cup UNION {{[found |-> TRUE, S |-> S, asked |-> T \cup {S}] :
                        T \in SUBSET (canF \ {S})} : S \in canT}

\* the tests of one search as the log records them
CallsOf(i, j, o) == {<<i, j, S, o.found /\ S = o.S>> : S \in o.asked}

NoSearch == [found |-> FALSE, S |-> {}, asked |-> {}]

\* the largest dataset of the direct calls of the test
MaxRows == 6

\* no direct call of the test was made
NoTest == [called |-> FALSE]

\* one call partial_correlation_test(data, i, j, S, alpha): whether
\* pg.partial_corr raises (failed) and the side of alpha the p-value falls
\* on (pAbove) are the caller's data
CallTest ==
    /\ pc = "test"
    /\ \E i \in Nodes(data), j \in Nodes(data), failed \in BOOLEAN, pAbove \in BOOLEAN :
          /\ i # j
          /\ \E S \in SUBSET (Nodes(data) \ {i, j}) :
                test' = [called |-> TRUE, i |-> i, j |-> j, S |-> S,
                         failed |-> failed, pAbove |-> pAbove,
                         result |-> partial_correlation_test(data.rows, S, failed, pAbove)]
    /\ UNCHANGED <<data, builder, pc, pdag, centre, pairs, pdag1>>
    /\ UNCHANGED <<skeleton, sepset, k, k_changed, edges_to_remove, todo, calls, independent>>
    /\ UNCHANGED <<made_change, rule, runs, out1>>

----------------------------------------------------------------------------
(* Step 1: the skeleton *)

\* as if the page's search took the neighbors of the first endpoint
FirstNeighborsPool(adj_i, adj_j) == adj_i

\* as if the page's search took the larger adjacency set
LargerPool(adj_i, adj_j) ==
    IF Cardinality(adj_i) <= Cardinality(adj_j) THEN adj_j ELSE adj_i

\* the candidate pool of the page's search: the smaller adjacency set
PagePool(adj_i, adj_j) ==
    IF Cardinality(adj_i) <= Cardinality(adj_j) THEN adj_i ELSE adj_j

\* the outcomes of examining edge (i, j) in the page's search
PageOutcomes(d, G, kk, i, j) ==
    LET adj_i == get_neighbors(G, i) \ {j}
        adj_j == get_neighbors(G, j) \ {i}
        adj_set == PagePool(adj_i, adj_j)
    IN  IF Cardinality(adj_set) >= kk
        THEN {[found |-> o.found, S |-> o.S, calls |-> CallsOf(i, j, o)] :
                 o \in SubsetSearch(d, i, j, adj_set, kk, {})}
        ELSE {[found |-> FALSE, S |-> {}, calls |-> {}]}

\* the outcomes of examining edge (i, j) in pc_step_1_skeleton: the
\* neighbors of i first, then, when they gave no separating set, those of j
LibOutcomes(d, G, kk, i, j) ==
    LET adj_i == get_neighbors(G, i) \ {j}
        adj_j == get_neighbors(G, j) \ {i}
        first == IF Cardinality(adj_i) >= kk
                 THEN SubsetSearch(d, i, j, adj_i, kk, {}) ELSE {NoSearch}
        second(o1) == IF Cardinality(adj_j) >= kk
                      THEN SubsetSearch(d, i, j, adj_j, kk, o1.asked) ELSE {NoSearch}
    IN  {[found |-> TRUE, S |-> o1.S, calls |-> CallsOf(i, j, o1)] :
            o1 \in {o \in first : o.found}}
        \cup UNION {{[found |-> o2.found, S |-> o2.S,
                      calls |-> CallsOf(i, j, o1) \cup CallsOf(i, j, o2)] :
                        o2 \in second(o1)} : o1 \in {o \in first : ~o.found}}

EdgeOutcomes(b, d, G, kk, i, j) ==
    IF b = "page" THEN PageOutcomes(d, G, kk, i, j) ELSE LibOutcomes(d, G, kk, i, j)

\* as if the set stored were not the subset tested
StoreEmptySepset(dict, i, j, S) ==
    DictSet(DictSet(dict, <<i, j>>, S \ S), <<j, i>>, S \ S)

\* as if only the ordering (i, j) were stored
StoreOneOrdering(dict, i, j, S) == DictSet(dict, <<i, j>>, S)

\* sepset[(i, j)] = set(S); sepset[(j, i)] = set(S)
StoreSepset(dict, i, j, S) == DictSet(DictSet(dict, <<i, j>>, S), <<j, i>>, S)

\* as if the listed edges were not removed
KeepEdges(G, rem) == G

\* as if only the arc (i, j) of an edge were removed and (j, i) stayed
RemoveOneDirection(G, rem) == (G \ rem) \cup {<<e[2], e[1]>> : e \in rem}

\* skeleton.remove_edges_from(edges_to_remove)
remove_edges_from(G, rem) == G \ rem

\* as if the page's search, too, stopped after a pass that removed nothing
StopsWhenUnchanged(b, d, G, changed, kk) == ~changed

\* as if the page's search ran one more pass before it stopped
StopsOnePassLater(b, d, G, changed, kk) ==
    IF b = "page"
    THEN \A n \in Nodes(d) : Cardinality(get_neighbors(G, n)) + 1 < kk
    ELSE ~changed

\* whether the search returns after the pass that ended with flag changed,
\* graph G and the next size kk
SearchStops(b, d, G, changed, kk) ==
    IF b \in {"page", "liblog"}
    THEN \A n \in Nodes(d) : Cardinality(get_neighbors(G, n)) < kk
    ELSE ~changed

\* one iteration of "for (i, j) in skeleton.edges()"
ExamineEdge ==
    /\ pc = "skeleton"
    /\ todo # {}
    /\ LET e == FirstEdge(data, todo)
       IN  \E o \in EdgeOutcomes(builder, data, skeleton, k, e[1], e[2]) :
               /\ calls' = o.calls
               /\ independent' = independent \cup {<<c[1], c[2], c[3]>> : c \in {x \in o.calls : x[4]}}
               /\ edges_to_remove' = IF o.found THEN edges_to_remove \cup {e}
                                     ELSE edges_to_remove
               /\ sepset' = IF o.found THEN StoreSepset(sepset, e[1], e[2], o.S)
                            ELSE sepset
               /\ k_changed' = (k_changed \/ o.found)
               /\ todo' = todo \ {e}
    /\ UNCHANGED <<test, data, builder, pc, skeleton, k>>
    /\ UNCHANGED orientVars
    /\ UNCHANGED meekVars

\* one iteration of the loop over the edges, for a list skeleton.edges()
\* that comes in any order
ExamineAnyEdge ==
    /\ pc = "skeleton"
    /\ \E e \in todo :
          \E o \in EdgeOutcomes(builder, data, skeleton, k, e[1], e[2]) :
              /\ calls' = o.calls
              /\ independent' = independent \cup
                     {<<c[1], c[2], c[3]>> : c \in {x \in o.calls : x[4]}}
              /\ edges_to_remove' = IF o.found THEN edges_to_remove \cup {e}
                                    ELSE edges_to_remove
              /\ sepset' = IF o.found THEN StoreSepset(sepset, e[1], e[2], o.S)
                           ELSE sepset
              /\ k_changed' = (k_changed \/ o.found)
              /\ todo' = todo \ {e}
    /\ UNCHANGED <<test, data, builder, pc, skeleton, k>>
    /\ UNCHANGED orientVars
    /\ UNCHANGED meekVars

\* the end of a pass: the removals, then either the next pass or the return
EndPass ==
    /\ pc = "skeleton"
    /\ todo = {}
    /\ LET G == remove_edges_from(skeleton, edges_to_remove)
       IN  /\ skeleton' = G
           /\ IF SearchStops(builder, data, G, k_changed, k + 1)
              THEN /\ pc' = "skeleton_done"
                   /\ k' = IF builder \in {"page", "liblog"} THEN k + 1 ELSE k
                   /\ UNCHANGED <<k_changed, edges_to_remove, todo>>
              ELSE /\ pc' = "skeleton"
                   /\ k' = k + 1
                   /\ k_changed' = FALSE
                   /\ edges_to_remove' = {}
                   /\ todo' = G
    /\ calls' = {}
    /\ UNCHANGED <<test, data, builder, sepset, independent>>
    /\ UNCHANGED orientVars
    /\ UNCHANGED meekVars

\* the parameters of partial_correlation_test: data, i, j, S, alpha
TestParams == 5

\* the arguments pc_algorithm.py's pc_step_1_skeleton_with_logging passes to
\* it: data, i, j, set(S), alpha, log
LoggingCallArgs == 6

\* One iteration of the loop over the edges in pc_algorithm.py's
\* pc_step_1_skeleton_with_logging: the page's search, with the module's
\* partial_correlation_test as the test.  A call with as many arguments as
\* the function has parameters goes as on the page; any other call raises
\* TypeError, which nothing catches.
LoggingExamineEdge ==
    /\ pc = "skeleton"
    /\ builder = "liblog"
    /\ todo # {}
    /\ LET e == FirstEdge(data, todo)
           adj_set == PagePool(get_neighbors(skeleton, e[1]) \ {e[2]},
                               get_neighbors(skeleton, e[2]) \ {e[1]})
       IN  IF Cardinality(adj_set) >= k /\ LoggingCallArgs # TestParams
           THEN /\ pc' = "raised"
                /\ UNCHANGED <<calls, independent, edges_to_remove, sepset, k_changed, todo>>
           ELSE /\ \E o \in PageOutcomes(data, skeleton, k, e[1], e[2]) :
                     /\ calls' = o.calls
                     /\ independent' = independent \cup
                            {<<c[1], c[2], c[3]>> : c \in {x \in o.calls : x[4]}}
                     /\ edges_to_remove' = IF o.found THEN edges_to_remove \cup {e}
                                           ELSE edges_to_remove
                     /\ sepset' = IF o.found THEN StoreSepset(sepset, e[1], e[2], o.S)
                                  ELSE sepset
                     /\ k_changed' = (k_changed \/ o.found)
                     /\ todo' = todo \ {e}
                /\ pc' = pc
    /\ UNCHANGED <<test, data, builder, skeleton, k>>
    /\ UNCHANGED orientVars
    /\ UNCHANGED meekVars

----------------------------------------------------------------------------
(* Step 2: the colliders *)

\* as if every edge gave one arc only
OneArcPerEdge(G) == G

\* nx.DiGraph(skeleton): every edge as two arcs
DiGraph(G) == G \cup {<<e[2], e[1]>> : e \in G}

\* as if the pairs of adjacent neighbors were taken too
AllPairs(G, kn) == combinations(get_neighbors(G, kn), 2)

\* the pairs {i, j} of neighbors of node kn that are not adjacent:
\* "for (i, j) in combinations(neighbors_k, 2): if not skeleton.has_edge(i, j)"
UnshieldedPairs(G, kn) ==
    {pr \in combinations(get_neighbors(G, kn), 2) :
        \A i \in pr, j \in pr : i # j => ~has_edge(G, i, j)}

\* as if the separating set were not consulted
AlwaysCollider(dict, i, j, kn) == TRUE

\* "sep = sepset.get((i, j)); if sep is None or k not in sep"
IsCollider(dict, i, j, kn) ==
    \/ <<i, j>> \notin DOMAIN dict
    \/ kn \notin dict[<<i, j>>]

\* as if only the arc to the first neighbor were removed
RemoveOneArc(G, kn, i, j) == G \ {<<kn, i>>}

\* "if pdag.has_edge(k, i): pdag.remove_edge(k, i)", and the same for j
RemoveArcs(G, kn, i, j) == G \ {<<kn, i>>, <<kn, j>>}

NodeAt(d, p) == d.columns[p]

\* the call pc_step_2_orient_colliders(skeleton, sepset), to its outer loop
OrientBegin ==
    /\ pc = "skeleton_done"
    /\ pdag' = DiGraph(skeleton)
    /\ IF Len(data.columns) = 0
       THEN centre' = 0 /\ pairs' = {}
       ELSE centre' = 1 /\ pairs' = UnshieldedPairs(skeleton, NodeAt(data, 1))
    /\ pc' = "colliders"
    \* the locals of the skeleton search are gone
    /\ k' = 0 /\ k_changed' = FALSE /\ edges_to_remove' = {} /\ todo' = {} /\ calls' = {}
    /\ UNCHANGED <<test, data, builder, pdag1, skeleton, sepset, independent>>
    /\ UNCHANGED meekVars

\* one unshielded triple i - k - j; the neighbors are a Python set, so the
\* pairs of a node come in any order, each in either order of its two nodes
OrientTriple ==
    /\ pc = "colliders"
    /\ \E pr \in pairs : \E i \in pr : \E j \in pr \ {i} :
          /\ pdag' = IF IsCollider(sepset, i, j, NodeAt(data, centre))
                     THEN RemoveArcs(pdag, NodeAt(data, centre), i, j)
                     ELSE pdag
          /\ pairs' = pairs \ {pr}
    /\ UNCHANGED <<test, data, builder, pc, centre, pdag1>>
    /\ UNCHANGED builderVars
    /\ UNCHANGED meekVars

\* the next node of "for k in skeleton.nodes()"
NextNode ==
    /\ pc = "colliders"
    /\ pairs = {}
    /\ centre < Len(data.columns)
    /\ centre' = centre + 1
    /\ pairs' = UnshieldedPairs(skeleton, NodeAt(data, centre + 1))
    /\ UNCHANGED <<test, data, builder, pc, pdag, pdag1>>
    /\ UNCHANGED builderVars
    /\ UNCHANGED meekVars

\* "return pdag"; the caller keeps it as pdag1 and calls
\* pc_step_3_orient_remaining(pdag1.copy())
OrientReturn ==
    /\ pc = "colliders"
    /\ pairs = {}
    /\ centre >= Len(data.columns)
    /\ pdag1' = pdag
    /\ pc' = "propagate"
    /\ runs' = 1
    /\ made_change' = FALSE
    /\ rule' = 0
    /\ UNCHANGED <<test, data, builder, pdag, centre, pairs, out1>>
    /\ UNCHANGED builderVars

----------------------------------------------------------------------------
(* Step 3: Meek's rules *)

has_undirected_edge(G, u, v) == <<u, v>> \in G /\ <<v, u>> \in G

has_directed_edge(G, u, v) == <<u, v>> \in G /\ <<v, u>> \notin G

is_adjacent(G, u, v) == <<u, v>> \in G \/ <<v, u>> \in G

\* R1: k -> i - j with k and j nonadjacent
Rule1(G, N, i, j) ==
    /\ has_undirected_edge(G, i, j)
    /\ \E kn \in N \ {i, j} : has_directed_edge(G, kn, i) /\ ~is_adjacent(G, kn, j)

\* R2: i -> k -> j with i - j
Rule2(G, N, i, j) ==
    /\ has_undirected_edge(G, i, j)
    /\ \E kn \in N \ {i, j} : has_directed_edge(G, i, kn) /\ has_directed_edge(G, kn, j)

\* R3: i - k -> j and i - l -> j with k and l nonadjacent
Rule3(G, N, i, j) ==
    /\ has_undirected_edge(G, i, j)
    /\ LET candidates == {kn \in N \ {i, j} :
                             has_undirected_edge(G, i, kn) /\ has_directed_edge(G, kn, j)}
       IN  \E kn \in candidates, l \in candidates : kn # l /\ ~is_adjacent(G, kn, l)

\* R4: i - k, k -> l -> j, with k and j nonadjacent
Rule4(G, N, i, j) ==
    /\ has_undirected_edge(G, i, j)
    /\ \E kn \in N \ {i, j} :
          /\ has_undirected_edge(G, i, kn)
          /\ ~is_adjacent(G, kn, j)
          /\ \E l \in N \ {i, j, kn} :
                has_directed_edge(G, kn, l) /\ has_directed_edge(G, l, j)

RuleHolds(n, G, N, i, j) ==
    CASE n = 1 -> Rule1(G, N, i, j)
      [] n = 2 -> Rule2(G, N, i, j)
      [] n = 3 -> Rule3(G, N, i, j)
      [] OTHER -> Rule4(G, N, i, j)

\* the arcs (i, j) of list(pdag.edges()) at which the scan of rule n stops
Matches(n, G, N) == {a \in G : RuleHolds(n, G, N, a[1], a[2])}

\* as if only the scan of R1 were made
OnlyRule1(G, N) == IF Matches(1, G, N) # {} THEN 1 ELSE 0

\* as if the scans were made in the order R4, R3, R2, R1
LastRuleFirst(G, N) ==
    IF Matches(4, G, N) # {} THEN 4
    ELSE IF Matches(3, G, N) # {} THEN 3
    ELSE IF Matches(2, G, N) # {} THEN 2
    ELSE IF Matches(1, G, N) # {} THEN 1
    ELSE 0

\* the rule whose scan makes the change of this iteration: the rules are
\* scanned in order and a change restarts the loop; 0 when none matches
FirstRule(G, N) ==
    IF Matches(1, G, N) # {} THEN 1
    ELSE IF Matches(2, G, N) # {} THEN 2
    ELSE IF Matches(3, G, N) # {} THEN 3
    ELSE IF Matches(4, G, N) # {} THEN 4
    ELSE 0

\* as if the arc were not removed while made_change is set
OrientNothing(G, i, j) == G

\* as if the arc (i, j) were removed
OrientBackwards(G, i, j) == G \ {<<i, j>>}

\* "pdag.remove_edge(j, i)": orient i -> j
Orient(G, i, j) == G \ {<<j, i>>}

\* as if the loop ended after its first iteration, changed or not
LoopOnce(changed) == FALSE

\* "if made_change: continue" ... "if not made_change: break"
LoopAgain(changed) == changed

\* one iteration of "while True" of pc_step_3_orient_remaining
MeekIter ==
    /\ pc = "propagate"
    /\ LET n == FirstRule(pdag, Nodes(data))
       IN  /\ rule' = n
           /\ made_change' = (n # 0)
           /\ pdag' = IF n = 0 THEN pdag
                      ELSE LET a == FirstEdge(data, Matches(n, pdag, Nodes(data)))
                           IN  Orient(pdag, a[1], a[2])
           /\ pc' = IF LoopAgain(n # 0) THEN "propagate" ELSE "returned"
           /\ out1' = IF runs = 1 /\ ~LoopAgain(n # 0) THEN pdag' ELSE out1
    /\ UNCHANGED <<test, data, builder, centre, pairs, pdag1, runs>>
    /\ UNCHANGED builderVars

\* pc_step_3_orient_remaining called again on the graph it returned
Rerun ==
    /\ pc = "returned"
    /\ runs < MaxCalls
    /\ runs' = runs + 1
    /\ pc' = "propagate"
    /\ made_change' = FALSE
    /\ rule' = 0
    /\ UNCHANGED <<test, data, builder, pdag, centre, pairs, pdag1, out1>>
    /\ UNCHANGED builderVars

----------------------------------------------------------------------------
(* Specification *)

Init ==
    /\ data \in Datasets
    /\ builder \in {"lib", "page"}
    /\ pc = "skeleton"
    /\ skeleton = complete_graph(data)
    /\ sepset = EmptyDict
    /\ k = 0
    /\ k_changed = FALSE
    /\ edges_to_remove = {}
    /\ todo = complete_graph(data)
    /\ calls = {}
    /\ independent = {}
    /\ pdag = {}
    /\ centre = 0
    /\ pairs = {}
    /\ pdag1 = {}
    /\ made_change = FALSE
    /\ rule = 0
    /\ runs = 0
    /\ out1 = {}
    /\ test = NoTest

Next ==
    \/ ExamineEdge
    \/ EndPass
    \/ OrientBegin
    \/ OrientTriple
    \/ NextNode
    \/ OrientReturn
    \/ MeekIter

Spec == Init /\ [][Next]_vars

\* pc_step_3_orient_remaining called on any directed graph over the four
\* columns, and again on what it returns
InitProp ==
    /\ data = [columns |-> DiamondColumns, rows |-> PageSamples, kind |-> "noisy"]
    /\ builder = "page"
    /\ pc = "propagate"
    /\ skeleton = {}
    /\ sepset = EmptyDict
    /\ k = 0
    /\ k_changed = FALSE
    /\ edges_to_remove = {}
    /\ todo = {}
    /\ calls = {}
    /\ independent = {}
    /\ pdag \in SUBSET {a \in Nodes(data) \X Nodes(data) : a[1] # a[2]}
    /\ centre = 0
    /\ pairs = {}
    /\ pdag1 = pdag
    /\ made_change = FALSE
    /\ rule = 0
    /\ runs = 1
    /\ out1 = {}
    /\ test = NoTest

NextProp ==
    \/ MeekIter
    \/ Rerun

SpecProp == InitProp /\ [][NextProp]_vars

\* the loop of pc_step_3_orient_remaining runs on without being suspended
SpecPropFair == SpecProp /\ WF_vars(MeekIter)

\* partial_correlation_test called on datasets of 0 to MaxRows rows
InitTest ==
    /\ data \in {[columns |-> DiamondColumns, rows |-> n, kind |-> "noisy"] : n \in 0..MaxRows}
    /\ builder = "lib"
    /\ pc = "test"
    /\ skeleton = {}
    /\ sepset = EmptyDict
    /\ k = 0
    /\ k_changed = FALSE
    /\ edges_to_remove = {}
    /\ todo = {}
    /\ calls = {}
    /\ independent = {}
    /\ pdag = {}
    /\ centre = 0
    /\ pairs = {}
    /\ pdag1 = {}
    /\ made_change = FALSE
    /\ rule = 0
    /\ runs = 0
    /\ out1 = {}
    /\ test = NoTest

NextTest == CallTest

SpecTest == InitTest /\ [][NextTest]_vars

\* the first n columns of cols
Prefix(cols, n) == [p \in 1..n |-> cols[p]]

\* datasets of no column to five columns and of no row to PageSamples rows
LoggingDatasets ==
    {[columns |-> c, rows |-> n, kind |-> "noisy"] :
        c \in {Prefix(MGraphColumns, n) : n \in 0..Len(MGraphColumns)}
               \cup {Prefix(TripleColumns, n) : n \in 1..Len(TripleColumns)},
        n \in (0..MaxRows) \cup {PageSamples}}

\* pc_algorithm.py's pc_step_1_skeleton_with_logging called on a dataset
InitLogging ==
    /\ data \in LoggingDatasets
    /\ builder = "liblog"
    /\ pc = "skeleton"
    /\ skeleton = complete_graph(data)
    /\ sepset = EmptyDict
    /\ k = 0
    /\ k_changed = FALSE
    /\ edges_to_remove = {}
    /\ todo = complete_graph(data)
    /\ calls = {}
    /\ independent = {}
    /\ pdag = {}
    /\ centre = 0
    /\ pairs = {}
    /\ pdag1 = {}
    /\ made_change = FALSE
    /\ rule = 0
    /\ runs = 0
    /\ out1 = {}
    /\ test = NoTest

NextLogging ==
    \/ LoggingExamineEdge
    \/ EndPass

SpecLogging == InitLogging /\ [][NextLogging]_vars

\* the state in which the page calls the skeleton search on a dataset of D
InitOn(D) ==
    /\ data \in D
    /\ builder \in {"lib", "page"}
    /\ pc = "skeleton"
    /\ skeleton = complete_graph(data)
    /\ sepset = EmptyDict
    /\ k = 0
    /\ k_changed = FALSE
    /\ edges_to_remove = {}
    /\ todo = complete_graph(data)
    /\ calls = {}
    /\ independent = {}
    /\ pdag = {}
    /\ centre = 0
    /\ pairs = {}
    /\ pdag1 = {}
    /\ made_change = FALSE
    /\ rule = 0
    /\ runs = 0
    /\ out1 = {}
    /\ test = NoTest

\* the page's pipeline on the datasets with fixed test results, the edges of
\* a pass examined in any order
InitOrders ==
    /\ InitOn(FixedDatasets \cup PermutedDatasets)
    /\ builder = "page"

NextOrders ==
    \/ ExamineAnyEdge
    \/ EndPass
    \/ OrientBegin
    \/ OrientTriple
    \/ NextNode
    \/ OrientReturn
    \/ MeekIter

SpecOrders == InitOrders /\ [][NextOrders]_vars

\* the three steps on the datasets of the scenarios and on the empty one
InitScenario == InitOn(ScenarioDatasets \cup {EmptyData})

SpecScenario == InitScenario /\ [][Next]_vars

\* the datasets of the skeleton search alone: up to four columns
SearchDatasets ==
    {d \in Datasets : Len(d.columns) <= Len(DiamondColumns)}
    \cup ScenarioDatasets \cup {EmptyData}

InitSearch == InitOn(SearchDatasets)

\* the skeleton search alone, to its return
NextSearch ==
    \/ ExamineEdge
    \/ EndPass

SpecSearch == InitSearch /\ [][NextSearch]_vars

\* the loops of the skeleton search run on without being suspended
SpecSearchFair == SpecSearch /\ WF_vars(ExamineEdge) /\ WF_vars(EndPass)

----------------------------------------------------------------------------
(* Properties *)

Adjacent(G, u, v) == <<u, v>> \in G \/ <<v, u>> \in G

Undirected(G, u, v) == <<u, v>> \in G /\ <<v, u>> \in G

Directed(G, u, v) == <<u, v>> \in G /\ <<v, u>> \notin G

UndirectedPairs(G) == {{a[1], a[2]} : a \in {x \in G : <<x[2], x[1]>> \in G}}

\* i - kn - j is an unshielded triple of the skeleton G
Unshielded(G, i, kn, j) ==
    /\ i # j /\ i # kn /\ j # kn
    /\ Adjacent(G, i, kn) /\ Adjacent(G, kn, j) /\ ~Adjacent(G, i, j)

\* sepset(i, j) exists and contains kn
InSepset(i, j, kn) == <<i, j>> \in DOMAIN sepset /\ kn \in sepset[<<i, j>>]

\* the unshielded colliders a -> c <- b of G
UnshieldedColliders(G, N) ==
    {t \in N \X N \X N :
        /\ t[1] # t[2]
        /\ Directed(G, t[1], t[3]) /\ Directed(G, t[2], t[3])
        /\ ~Adjacent(G, t[1], t[2])}

Compose(R, Q, N) == {p \in N \X N : \E m \in N : <<p[1], m>> \in R /\ <<m, p[2]>> \in Q}

\* G's directed arcs hold a directed cycle (paths of up to eight arcs)
HasDirectedCycle(G, N) ==
    LET D == {a \in G : <<a[2], a[1]>> \notin G}
        D2 == D \cup Compose(D, D, N)
        D4 == D2 \cup Compose(D2, D2, N)
        D8 == D4 \cup Compose(D4, D4, N)
    IN  \E n \in N : <<n, n>> \in D8

\* C1: when pc_step_3_orient_remaining is called again on the graph it
\* returned, it returns a graph with exactly the same arcs.
C1_Idempotent == (pc = "returned" /\ runs >= 2) => pdag = out1

\* the first call oriented two edges and the second call has returned
C1_Witness ==
    /\ pc = "returned" /\ runs = 2
    /\ Cardinality(pdag1 \ out1) >= 2

\* C2: every iteration of the propagator's loop that sets made_change
\* leaves strictly fewer undirected pairs, an iteration that does not
\* returns with the graph as it was, and the loop always reaches its return.
C2_Terminates ==
    /\ [][pc = "propagate" =>
            /\ made_change' =>
                  /\ UndirectedPairs(pdag') \subseteq UndirectedPairs(pdag)
                  /\ Cardinality(UndirectedPairs(pdag')) < Cardinality(UndirectedPairs(pdag))
                  /\ pc' = "propagate"
            /\ ~made_change' => pc' = "returned" /\ pdag' = pdag]_vars
    /\ (pc = "propagate") ~> (pc = "returned")

\* the loop made three changes and returned
C2_Witness ==
    /\ pc = "returned" /\ runs = 1
    /\ Cardinality(UndirectedPairs(pdag1)) >= Cardinality(UndirectedPairs(pdag)) + 3

\* C3: the graph the propagator returns has no unshielded collider that the
\* graph returned by the collider orientation did not have.
C3_NoNewCollider ==
    pc = "returned" =>
        UnshieldedColliders(pdag, Nodes(data)) \subseteq UnshieldedColliders(pdag1, Nodes(data))

\* C4: the directed arcs of the final graph hold no directed cycle.
C4_Acyclic == pc = "returned" => ~HasDirectedCycle(pdag, Nodes(data))

\* C5: once a pair is directed i -> j, arc i -> j stays and arc j -> i
\* stays absent in every later state of the two orientation steps.
C5_DirectedPermanent ==
    [][\A a \in pdag : Directed(pdag, a[1], a[2]) => Directed(pdag', a[1], a[2])]_vars

\* C6 as stated: for every unshielded triple i - k - j with k in
\* sepset(i, j), both edges i - k and k - j are undirected in the graph the
\* collider orientation returns.
C6_BothUndirected ==
    pc \in {"propagate", "returned"} =>
        \A i \in Nodes(data), kn \in Nodes(data), j \in Nodes(data) :
            (Unshielded(skeleton, i, kn, j) /\ InSepset(i, j, kn)) =>
                Undirected(pdag1, i, kn) /\ Undirected(pdag1, kn, j)

\* the arc u -> v is removed on account of another triple: an unshielded
\* triple v - u - w whose separating set is absent or lacks its centre u
OrientedByTriple(u, v) ==
    \E w \in Nodes(data) : Unshielded(skeleton, v, u, w) /\ ~InSepset(v, w, u)

\* C6 as amended: for every unshielded triple i - k - j with k in
\* sepset(i, j), each arc of the edges i - k and k - j is in the graph the
\* collider orientation returns, unless an unshielded triple centred at the
\* arc's tail, with the tail not in its separating set, removed it.
C6_UndirectedUnlessOtherTriple ==
    pc \in {"propagate", "returned"} =>
        \A i \in Nodes(data), kn \in Nodes(data), j \in Nodes(data) :
            (Unshielded(skeleton, i, kn, j) /\ InSepset(i, j, kn)) =>
                /\ <<kn, i>> \in pdag1 \/ OrientedByTriple(kn, i)
                /\ <<i, kn>> \in pdag1 \/ OrientedByTriple(i, kn)

\* a triple with its centre in the separating set whose edges are both
\* undirected in the returned graph, beside a collider at another node
C6_Witness ==
    /\ pc = "propagate"
    /\ \E i \in Nodes(data), kn \in Nodes(data), j \in Nodes(data) :
          /\ Unshielded(skeleton, i, kn, j) /\ InSepset(i, j, kn)
          /\ Undirected(pdag1, i, kn) /\ Undirected(pdag1, kn, j)
    /\ pdag1 # DiGraph(skeleton)

\* C7: for every unshielded triple i - k - j whose sepset(i, j) is absent
\* or lacks k, the graph the collider orientation returns has the arcs
\* i -> k and j -> k and has neither k -> i nor k -> j.
C7_ColliderOriented ==
    pc \in {"propagate", "returned"} =>
        \A i \in Nodes(data), kn \in Nodes(data), j \in Nodes(data) :
            (Unshielded(skeleton, i, kn, j) /\ ~InSepset(i, j, kn)) =>
                /\ <<kn, i>> \notin pdag1 /\ <<kn, j>> \notin pdag1
                /\ <<i, kn>> \in pdag1 /\ <<j, kn>> \in pdag1

\* C8: the skeleton search starts from the complete graph over the columns
\* and no step adds an edge or changes the columns.
C8_SkeletonMonotone ==
    /\ skeleton = {e \in Nodes(data) \X Nodes(data) : Pos(data, e[1]) < Pos(data, e[2])}
    /\ [][skeleton' \subseteq skeleton /\ data' = data]_vars

\* a later pass of the search, edges removed by the passes before it
C8_Witness ==
    /\ pc = "skeleton" /\ k >= 2
    /\ Cardinality(complete_graph(data) \ skeleton) >= 2
    /\ todo # skeleton

\* the edges the search has found separable: removed from the skeleton or
\* listed for removal at the end of the pass
Removed == (complete_graph(data) \ skeleton) \cup edges_to_remove

\* C9: for every edge (i, j) the search removed, the test of i and j given
\* exactly sepset[(i, j)] returned independent; no edge is removed without.
C9_SepsetCoherent ==
    \A e \in Removed :
        /\ e \in DOMAIN sepset
        /\ <<e[1], e[2], sepset[e]>> \in independent

\* an edge removed in an earlier pass with a separating set of one column
C9_Witness ==
    /\ pc = "skeleton"
    /\ \E e \in complete_graph(data) \ skeleton : Cardinality(sepset[e]) = 1

\* the state between two passes, or at the return of the search
PassBoundary ==
    \/ pc = "skeleton" /\ todo = skeleton /\ edges_to_remove = {}
    \/ pc = "skeleton_done"

\* C10: at the end of every pass and at the return of the search, sepset
\* has an entry for (i, j) exactly when the edge i - j is not in the
\* skeleton, and sepset[(j, i)] is then the same set.
C10_SepsetDomain ==
    PassBoundary =>
        /\ \A i \in Nodes(data), j \in Nodes(data) :
              (i # j) => (<<i, j>> \in DOMAIN sepset <=> ~Adjacent(skeleton, i, j))
        /\ \A p \in DOMAIN sepset :
              <<p[2], p[1]>> \in DOMAIN sepset /\ sepset[<<p[2], p[1]>>] = sepset[p]

\* the end of a pass with three edges removed
C10_Witness ==
    /\ PassBoundary /\ k >= 1
    /\ Cardinality(DOMAIN sepset) >= 6

\* C11: pc_step_1_skeleton returns only when no node has as many neighbors
\* as the size of the next pass (the k it would run next), also after a pass
\* that removed no edge.
C11_StopsOnlyWhenExhausted ==
    (pc = "skeleton_done" /\ builder = "lib") =>
        \A n \in Nodes(data) : Cardinality(get_neighbors(skeleton, n)) < k + 1

\* C12: every conditioning set tested for an edge (i, j) is taken from the
\* neighbors of i or of j in the skeleton without the edges found separable
\* earlier in the same pass.
C12_CurrentNeighbors ==
    pc = "skeleton" =>
        \A c \in calls :
            LET G == skeleton \ (edges_to_remove \ {<<c[1], c[2]>>})
            IN  \/ c[3] \subseteq get_neighbors(G, c[1]) \ {c[2]}
                \/ c[3] \subseteq get_neighbors(G, c[2]) \ {c[1]}

\* the larger of two numbers
Max(a, b) == IF a >= b THEN a ELSE b

C15_EmptyRejected ==
    Len(data.columns) = 0 =>
        pc \notin {"skeleton_done", "colliders", "propagate", "returned"}

\* C14: partial_correlation_test returns True exactly when the dataset has
\* at least |S| + 3 rows, the computation did not fail and the p-value is
\* above alpha; in every other case it returns False, and it always returns.
C14_ConservativeOracle ==
    test.called =>
        /\ test.result \in BOOLEAN
        /\ test.result <=> /\ data.rows >= Cardinality(test.S) + 3
                           /\ ~test.failed
                           /\ test.pAbove

\* a test that returned True with exactly |S| + 3 rows
C14_Witness ==
    /\ test.called /\ test.result
    /\ Cardinality(test.S) = 2
    /\ data.rows = Cardinality(test.S) + 3

\* the run is on the faithful dataset of graph D
OnScenario(D) == data.kind = "faithful" /\ data.dag = D

\* the skeleton search has returned
SearchReturned == pc \in {"skeleton_done", "colliders", "propagate", "returned"}

\* the collider orientation has returned
OrientReturned == pc \in {"propagate", "returned"}

\* C16: on the diamond A -> B, A -> C, B -> D, C -> D the page's search
\* returns the skeleton A-B, A-C, B-D, C-D with sepset(A, D) = {B, C} and
\* sepset(B, C) = {A}; the collider orientation returns B -> D and C -> D
\* with A-B and A-C undirected, and the propagator returns the same graph.
C16_Diamond ==
    (OnScenario(DiamondDag) /\ builder = "page") =>
        /\ SearchReturned =>
              /\ skeleton = {<<"A", "B">>, <<"A", "C">>, <<"B", "D">>, <<"C", "D">>}
              /\ DOMAIN sepset = {<<"A", "D">>, <<"D", "A">>, <<"B", "C">>, <<"C", "B">>}
              /\ sepset[<<"A", "D">>] = {"B", "C"} /\ sepset[<<"D", "A">>] = {"B", "C"}
              /\ sepset[<<"B", "C">>] = {"A"} /\ sepset[<<"C", "B">>] = {"A"}
        /\ OrientReturned =>
              pdag1 = {<<"A", "B">>, <<"B", "A">>, <<"A", "C">>, <<"C", "A">>,
                       <<"B", "D">>, <<"C", "D">>}
        /\ pc = "returned" => pdag = pdag1

\* the pipeline returned on the diamond after the page's search
C16_Witness ==
    /\ OnScenario(DiamondDag) /\ builder = "page"
    /\ pc = "returned"
    /\ Directed(pdag, "B", "D") /\ Undirected(pdag, "A", "B")

\* C17: on the chain X -> Z -> Y and on the fork X <- Z -> Y the skeleton
\* search returns the skeleton X-Z, Z-Y with sepset(X, Y) = {Z}; the
\* collider orientation orients nothing and the final graph has both edges
\* undirected.
C17_ChainFork ==
    (OnScenario(ChainDag) \/ OnScenario(ForkDag)) =>
        /\ SearchReturned =>
              /\ skeleton = {<<"X", "Z">>, <<"Y", "Z">>}
              /\ DOMAIN sepset = {<<"X", "Y">>, <<"Y", "X">>}
              /\ sepset[<<"X", "Y">>] = {"Z"} /\ sepset[<<"Y", "X">>] = {"Z"}
        /\ OrientReturned => pdag1 = DiGraph(skeleton)
        /\ pc = "returned" => pdag = DiGraph(skeleton)

\* C18: on the collider X -> Z <- Y the search removes X-Y in the pass at
\* k = 0 with the empty sepset and keeps X-Z and Y-Z; the collider
\* orientation returns X -> Z and Y -> Z, and the propagator leaves them.
C18_Collider ==
    OnScenario(ColliderDag) =>
        /\ (pc = "skeleton" /\ k >= 1) => skeleton = {<<"X", "Z">>, <<"Y", "Z">>}
        /\ SearchReturned =>
              /\ skeleton = {<<"X", "Z">>, <<"Y", "Z">>}
              /\ DOMAIN sepset = {<<"X", "Y">>, <<"Y", "X">>}
              /\ sepset[<<"X", "Y">>] = {} /\ sepset[<<"Y", "X">>] = {}
        /\ OrientReturned => pdag1 = {<<"X", "Z">>, <<"Y", "Z">>}
        /\ pc = "returned" => pdag = {<<"X", "Z">>, <<"Y", "Z">>}

\* the pipeline returned on the collider after the library's search
C18_Witness ==
    /\ OnScenario(ColliderDag) /\ builder = "lib"
    /\ pc = "returned"
    /\ Directed(pdag, "X", "Z") /\ Directed(pdag, "Y", "Z")

\* the neighbors of n in the skeleton G, without m
Others(G, n, m) == {x \in Nodes(data) : Adjacent(G, n, x)} \ {m}

\* the smaller of the two neighbor sets of the edge e of G (either, when they
\* have the same size)
SmallerPools(G, e) ==
    LET ai == Others(G, e[1], e[2])
        aj == Others(G, e[2], e[1])
    IN  {P \in {ai, aj} : Cardinality(P) <= Cardinality(ai) /\ Cardinality(P) <= Cardinality(aj)}

\* C19: an edge is in the returned skeleton exactly when no test of its pair
\* returned independent; and whenever an edge is examined in the pass at
\* size k and the smaller of its two neighbor sets has at least k elements,
\* every subset of size k of that set is tested, unless a test of that edge
\* in that pass returned independent.
C19_ResultGuarantee ==
    /\ [](SearchReturned =>
            \A e \in complete_graph(data) :
                e \in skeleton <=>
                    ~\E S \in SUBSET Nodes(data) : <<e[1], e[2], S>> \in independent)
    /\ [][(pc = "skeleton" /\ todo # {}) =>
            LET e == FirstEdge(data, todo)
            IN  \E P \in SmallerPools(skeleton, e) :
                    Cardinality(P) >= k =>
                        \/ \A S \in {T \in SUBSET P : Cardinality(T) = k} :
                              \E c \in calls' : c[1] = e[1] /\ c[2] = e[2] /\ c[3] = S
                        \/ \E c \in calls' : c[4]]_vars

\* the search returned after a pass with sets of two columns, some edges
\* removed and some kept
C19_Witness ==
    /\ pc = "skeleton_done" /\ k >= 2
    /\ skeleton # {} /\ skeleton # complete_graph(data)
    /\ \E t \in independent : Cardinality(t[3]) = 2

\* C20: while pc_step_2_orient_colliders runs, the skeleton, the columns and
\* the sepset stay as they were passed, and the graph it starts from has
\* both arcs of every skeleton edge and no other arc.
C20_InputsReadOnly ==
    [][/\ pc \in {"skeleton_done", "colliders"} =>
              skeleton' = skeleton /\ sepset' = sepset /\ data' = data
       /\ pc = "skeleton_done" =>
              pdag' = {a \in Nodes(data) \X Nodes(data) : Adjacent(skeleton, a[1], a[2])}]_vars

\* the collider orientation returned a graph with directed edges, from a
\* skeleton that had lost edges
C20_Witness ==
    /\ pc = "propagate"
    /\ Cardinality(pdag1) < 2 * Cardinality(skeleton)
    /\ DOMAIN sepset # {}

\* C21: pc_algorithm.py's pc_step_1_skeleton_with_logging raises no error,
\* on any dataset.
C21_LoggingReturns == builder = "liblog" => pc # "raised"

\* C22: every test of the skeleton search, in the pass at size k for the
\* edge (i, j), has i and j distinct and a conditioning set of exactly k
\* columns, none of them i or j, each a neighbor of i or of j in the
\* skeleton as it is when the test is made.
C22_TestInputs ==
    pc = "skeleton" =>
        \A c \in calls :
            /\ c[1] # c[2]
            /\ Cardinality(c[3]) = k
            /\ c[1] \notin c[3] /\ c[2] \notin c[3]
            /\ c[3] \subseteq Others(skeleton, c[1], c[2]) \cup Others(skeleton, c[2], c[1])

\* tests with two conditioning columns in a pass of a thinned skeleton
C22_Witness ==
    /\ pc = "skeleton" /\ k = 2
    /\ skeleton # complete_graph(data)
    /\ \E c \in calls : Cardinality(c[3]) = 2

\* the premise of Rule n for the pair (i, j) in the graph G over the nodes N
Premise(n, G, N, i, j) ==
    LET M == N \ {i, j}
    IN  CASE n = 1 -> \E kn \in M : Directed(G, kn, i) /\ ~Adjacent(G, kn, j)
          [] n = 2 -> \E kn \in M : Directed(G, i, kn) /\ Directed(G, kn, j)
          [] n = 3 -> \E kn \in M, l \in M :
                          /\ kn # l /\ ~Adjacent(G, kn, l)
                          /\ Undirected(G, i, kn) /\ Directed(G, kn, j)
                          /\ Undirected(G, i, l) /\ Directed(G, l, j)
          [] OTHER -> \E kn \in M, l \in M :
                          /\ kn # l
                          /\ Undirected(G, i, kn) /\ ~Adjacent(G, kn, j)
                          /\ Directed(G, kn, l) /\ Directed(G, l, j)

\* the pairs (i, j), undirected in G, for which the premise of Rule n holds
Open(n, G, N) ==
    {a \in N \X N : a[1] # a[2] /\ Undirected(G, a[1], a[2]) /\ Premise(n, G, N, a[1], a[2])}

\* C23: in the graph pc_step_3_orient_remaining returns, no undirected pair,
\* in either orientation, satisfies the premise of Rule 1, 2, 3 or 4.
C23_FixedPoint ==
    pc = "returned" => \A n \in 1..4 : Open(n, pdag, Nodes(data)) = {}

\* the propagator returned a graph with undirected edges left, after changes
\* by Rule 1 and by a later rule
C23_Witness ==
    /\ pc = "returned" /\ runs = 1
    /\ UndirectedPairs(pdag) # {}
    /\ Cardinality(pdag1 \ pdag) >= 2

\* C24: every step of the propagator that changes the graph removes exactly
\* one arc j -> i of a pair that was undirected and for which the premise of
\* Rule 1, 2, 3 or 4 held for (i, j); it adds no arc, removes no other arc
\* and leaves the adjacent pairs as they were.
C24_OneJustifiedOrientation ==
    [][(pc = "propagate" /\ pdag' # pdag) =>
          /\ \E a \in pdag :
                /\ Undirected(pdag, a[1], a[2])
                /\ pdag' = pdag \ {<<a[2], a[1]>>}
                /\ \E n \in 1..4 : Premise(n, pdag, Nodes(data), a[1], a[2])
          /\ \A i \in Nodes(data), j \in Nodes(data) :
                Adjacent(pdag', i, j) <=> Adjacent(pdag, i, j)]_vars

\* a step by Rule 4 has been made
C24_Witness == pc = "propagate" /\ rule = 4 /\ made_change

\* C25: a change by Rule n (n = 2, 3, 4) is made only in a graph in which no
\* undirected pair satisfies the premise of a Rule m with m < n.
C25_RestartFromRule1 ==
    [][(pc = "propagate" /\ pdag' # pdag) =>
          \A m \in 1..4 : m < rule' => Open(m, pdag, Nodes(data)) = {}]_vars

\* a change by Rule 2 that unlocks Rule 1: the scan restarts
C25_Witness ==
    /\ pc = "propagate" /\ rule = 2 /\ made_change
    /\ Open(1, pdag, Nodes(data)) # {}

\* C26: an edge is examined only if no test of its pair has returned
\* independent, and at most one test of an examination returns independent;
\* an edge with an independent test is in the skeleton only until the end of
\* the pass that listed it for removal; and no step changes or drops a
\* sepset entry once written.
C26_FirstSuccessStop ==
    /\ [][(pc = "skeleton" /\ todo # {}) =>
            LET e == FirstEdge(data, todo)
            IN  /\ ~\E t \in independent : t[1] = e[1] /\ t[2] = e[2]
                /\ Cardinality({c \in calls' : c[4]}) <= 1]_vars
    /\ [](\A t \in independent :
            <<t[1], t[2]>> \in skeleton =>
                pc = "skeleton" /\ <<t[1], t[2]>> \in edges_to_remove)
    /\ [][\A p \in DOMAIN sepset : p \in DOMAIN sepset' /\ sepset'[p] = sepset[p]]_vars

\* a pass at size 2 in which an edge is listed for removal, after edges
\* removed by the passes at sizes 0 and 1
C26_Witness ==
    /\ pc = "skeleton" /\ k = 2 /\ edges_to_remove # {}
    /\ \E t \in independent : t[3] = {}
    /\ \E t \in independent : Cardinality(t[3]) = 1

\* C27: in the graph the collider orientation returns, and in the final
\* graph, two nodes are joined by an arc exactly when they are joined by an
\* edge of the skeleton.
C27_AdjacenciesPreserved ==
    /\ OrientReturned =>
          \A i \in Nodes(data), j \in Nodes(data) :
              Adjacent(pdag1, i, j) <=> Adjacent(skeleton, i, j)
    /\ pc = "returned" =>
          \A i \in Nodes(data), j \in Nodes(data) :
              Adjacent(pdag, i, j) <=> Adjacent(skeleton, i, j)

\* C30: whatever the order of the pairs, the collider orientation returns
\* every arc u -> v of a skeleton edge except the arcs k -> i for which some
\* unshielded triple i - k - j has k absent from sepset(i, j).
C30_OrientClosedForm ==
    OrientReturned =>
        pdag1 = {a \in Nodes(data) \X Nodes(data) :
                    /\ Adjacent(skeleton, a[1], a[2])
                    /\ ~\E j \in Nodes(data) :
                          Unshielded(skeleton, a[2], a[1], j) /\ ~InSepset(a[2], j, a[1])}

\* a returned graph with a collider, from a skeleton that also has an
\* unshielded triple whose centre is in the separating set
C30_Witness ==
    /\ pc = "propagate"
    /\ \E i \in Nodes(data), kn \in Nodes(data), j \in Nodes(data) :
          Unshielded(skeleton, i, kn, j) /\ ~InSepset(i, j, kn)
    /\ \E i \in Nodes(data), kn \in Nodes(data), j \in Nodes(data) :
          Unshielded(skeleton, i, kn, j) /\ InSepset(i, j, kn)
    /\ \E i \in Nodes(data), kn \in Nodes(data), j \in Nodes(data) :
          Adjacent(skeleton, i, kn) /\ Adjacent(skeleton, kn, j) /\ Adjacent(skeleton, i, j)

\* the columns in the order A, B, C, D, E
Alphabetical == [columns |-> MGraphColumns]

\* what the propagator returns for the arcs G over the nodes N when every
\* scan goes through the arcs in the order A, B, C, D, E of their endpoints
RECURSIVE Propagated(_, _)
Propagated(G, N) ==
    LET n == FirstRule(G, N)
    IN  IF n = 0 THEN G
        ELSE LET a == FirstEdge(Alphabetical, Matches(n, G, N))
             IN  Propagated(G \ {<<a[2], a[1]>>}, N)

\* C28: the graph the propagator returns is a function of the arcs of the
\* graph it is given: whatever order its scans go through the arcs in, it
\* is the graph the scans in the order A, B, C, D, E give.
C28_ScanOrderIndependent ==
    pc = "returned" => pdag = Propagated(pdag1, Nodes(data))

\* the pool of the edge e in the skeleton G: the smaller of the neighbor
\* sets of its endpoints, that of the first endpoint when they are equal
PoolOf(G, e) ==
    IF Cardinality(Others(G, e[1], e[2])) <= Cardinality(Others(G, e[2], e[1]))
    THEN Others(G, e[1], e[2]) ELSE Others(G, e[2], e[1])

\* the edges of G with an independent test on a subset of size kk of their pool
Separable(G, kk) ==
    {e \in G : \E S \in SUBSET PoolOf(G, e) :
                  Cardinality(S) = kk /\ <<{e[1], e[2]}, S>> \in data.facts}

\* the skeleton the passes from size kk on leave of G, by the test results alone
RECURSIVE Thinned(_, _)
Thinned(G, kk) ==
    LET H == G \ Separable(G, kk)
    IN  IF \A n \in Nodes(data) : Cardinality({x \in Nodes(data) : Adjacent(H, n, x)}) < kk + 1
        THEN H
        ELSE Thinned(H, kk + 1)

\* C29: with fixed test results, the page's search returns the same edges
\* whatever the order of the edges within a pass and of the subsets of a
\* pool: the edges the test results alone determine.
C29_SkeletonOrderIndependent ==
    (data.kind = "fixed" /\ SearchReturned) =>
        skeleton = Thinned(complete_graph(data), 0)

\* a pass at size 2, after a removal at size 1, in which an edge was found
\* separable before the first edge of the skeleton was examined
C29_Witness ==
    /\ data.kind = "fixed"
    /\ pc = "skeleton" /\ k = 2
    /\ FirstEdge(data, skeleton) \in todo
    /\ edges_to_remove # {}
    /\ \E p \in DOMAIN sepset : Cardinality(sepset[p]) = 1

====
